---- MODULE Spec2Model ----
(***************************************************************************)
(* Model of dashboard.py: a Streamlit script that loads two CSV tables     *)
(* through st.cache_data, filters the consumption table by a multiselect,  *)
(* computes five group-by aggregates and shows the forecast rows of the    *)
(* consumer chosen in a selectbox.  Every user interaction re-executes the *)
(* whole script; one action of the model is one execution of the script.   *)
(*                                                                         *)
(* A table is a sequence of records (rows in file order).  A Timestamp is  *)
(* the number of hours since Monday 2024-01-01 00:00.  A mean is the exact *)
(* fraction sum/count in lowest terms.                                     *)
(***************************************************************************)
EXTENDS Integers, Sequences, FiniteSets, TLC

\* ---------------------------------------------------------------- bounds
MaxRows == 3
MaxFRows == 2

\* Consumer identifiers, listed in the order sorted() gives them.
ConsumerIds == <<"A", "B">>
\* Mon 13:00 and Fri 04:00 of the first week.
Timestamps == {13, 100}
Consumptions == {10, 20}
ForecastDates == {1, 2}
Yhats == {7, 9}

None == "None"

\* ------------------------------------------------------------- sequences
RECURSIVE Flatten(_)
Flatten(ss) == IF ss = <<>> THEN <<>> ELSE Head(ss) \o Flatten(Tail(ss))

Range(s) == {s[i] : i \in DOMAIN s}

SeqsUpTo(S, n) == UNION {[1..k -> S] : k \in 0..n}

RECURSIVE SortInts(_)
SortInts(S) ==
    IF S = {} THEN <<>>
    ELSE LET m == CHOOSE x \in S : \A y \in S : x <= y
         IN <<m>> \o SortInts(S \ {m})

\* sorted(...) of a set of consumer identifiers.
SortConsumers(S) == SelectSeq(ConsumerIds, LAMBDA c : c \in S)

RECURSIVE GCD(_, _)
GCD(a, b) == IF b = 0 THEN a ELSE GCD(b, a % b)

\* ------------------------------------------------------------ the loader
weekday_order ==
    <<"Monday", "Tuesday", "Wednesday", "Thursday", "Friday", "Saturday", "Sunday">>

\* The seven day names in the order a sorting group-by puts them.
WeekdayLexical ==
    <<"Friday", "Monday", "Saturday", "Sunday", "Thursday", "Tuesday", "Wednesday">>

DateOf(ts) == ts \div 24
HourOf(ts) == ts % 24
DayName(ts) == weekday_order[(DateOf(ts) % 7) + 1]

DeriveRow(r) ==
    [Timestamp |-> r.Timestamp, Consumer |-> r.Consumer, Consumption |-> r.Consumption,
     Date |-> DateOf(r.Timestamp), Hour |-> HourOf(r.Timestamp),
     Weekday |-> DayName(r.Timestamp)]

read_consumption(rows) == [i \in DOMAIN rows |-> DeriveRow(rows[i])]

\* A cache hit that hands back the rows with the derived columns left at
\* their defaults instead of the memoized table.
load_data_stale(cache, file) ==
    IF cache.load_data.cached
    THEN [exception |-> FALSE, hit |-> TRUE, cache |-> cache,
          value |-> [i \in DOMAIN cache.load_data.value |->
                        [cache.load_data.value[i] EXCEPT
                            !.Date = 0, !.Hour = 0, !.Weekday = "Monday"]]]
    ELSE IF ~file.exists
    THEN [exception |-> TRUE, hit |-> FALSE, cache |-> cache, value |-> <<>>]
    ELSE LET t == read_consumption(file.rows)
         IN [exception |-> FALSE, hit |-> FALSE, value |-> t,
             cache |-> [cache EXCEPT !.load_data = [cached |-> TRUE, value |-> t]]]

\* @st.cache_data load_data(): the memoized table on a hit; on a miss the
\* file is read, the calendar columns derived and the table memoized.  A
\* missing file raises and nothing is memoized.
load_data(cache, file) ==
    IF cache.load_data.cached
    THEN [exception |-> FALSE, hit |-> TRUE, cache |-> cache,
          value |-> cache.load_data.value]
    ELSE IF ~file.exists
    THEN [exception |-> TRUE, hit |-> FALSE, cache |-> cache, value |-> <<>>]
    ELSE LET t == read_consumption(file.rows)
         IN [exception |-> FALSE, hit |-> FALSE, value |-> t,
             cache |-> [cache EXCEPT !.load_data = [cached |-> TRUE, value |-> t]]]

load_forecast_data(cache, file) ==
    IF cache.load_forecast_data.cached
    THEN [exception |-> FALSE, hit |-> TRUE, cache |-> cache,
          value |-> cache.load_forecast_data.value]
    ELSE IF ~file.exists
    THEN [exception |-> TRUE, hit |-> FALSE, cache |-> cache, value |-> <<>>]
    ELSE [exception |-> FALSE, hit |-> FALSE, value |-> file.rows,
          cache |-> [cache EXCEPT
                        !.load_forecast_data = [cached |-> TRUE, value |-> file.rows]]]

Unique(t) == {t[i].Consumer : i \in DOMAIN t}

\* ------------------------------------------------------------ the filter
\* isin() applied even to the empty selection.
FilterNoFallback(df_, sel) ==
    [warning |-> sel = {}, source |-> df_,
     filtered |-> SelectSeq(df_, LAMBDA r : r.Consumer \in sel)]

\* The selection ignored.
FilterIgnoreSelection(df_, sel) ==
    [warning |-> sel = {}, source |-> df_, filtered |-> df_]

\* The source table narrowed in place.
FilterInPlace(df_, sel) ==
    LET f == IF sel = {} THEN df_ ELSE SelectSeq(df_, LAMBDA r : r.Consumer \in sel)
    IN [warning |-> sel = {}, source |-> f, filtered |-> f]

\* Lines 46-50: the empty selection warns and copies the table, any other
\* selection keeps the rows whose Consumer is in it.  Both build a new
\* table; `source' is df as the statement leaves it.
Filter(df_, sel) ==
    IF sel = {}
    THEN [warning |-> TRUE, source |-> df_, filtered |-> df_]
    ELSE [warning |-> FALSE, source |-> df_,
          filtered |-> SelectSeq(df_, LAMBDA r : r.Consumer \in sel)]

\* --------------------------------------------------------- the aggregator
RECURSIVE SumConsumption(_)
SumConsumption(t) ==
    IF t = <<>> THEN 0 ELSE Head(t).Consumption + SumConsumption(Tail(t))

Mean(t) ==
    LET s == SumConsumption(t)
        n == Len(t)
        g == GCD(IF s < 0 THEN -s ELSE s, n)
    IN [num |-> s \div g, den |-> n \div g]

\* The observed keys of a two-level group-by, sorted by level 0 then level 1.
GroupKeys(level0, level1, present) ==
    Flatten([i \in DOMAIN level0 |->
        SelectSeq([j \in DOMAIN level1 |-> <<level0[i], level1[j]>>],
                  LAMBDA k : k \in present)])

\* groupby(['Date','Consumer'])['Consumption'].count()
DailyCount(dff) ==
    LET Key(r) == <<r.Date, r.Consumer>>
        keys == GroupKeys(SortInts({dff[i].Date : i \in DOMAIN dff}),
                          ConsumerIds, {Key(dff[i]) : i \in DOMAIN dff})
    IN [i \in DOMAIN keys |->
          [Date |-> keys[i][1], Consumer |-> keys[i][2],
           Consumption |-> Len(SelectSeq(dff, LAMBDA r : Key(r) = keys[i]))]]

\* Line 56.
Daily(dff) ==
    LET Key(r) == <<r.Date, r.Consumer>>
        keys == GroupKeys(SortInts({dff[i].Date : i \in DOMAIN dff}),
                          ConsumerIds, {Key(dff[i]) : i \in DOMAIN dff})
    IN [i \in DOMAIN keys |->
          [Date |-> keys[i][1], Consumer |-> keys[i][2],
           Consumption |-> SumConsumption(SelectSeq(dff, LAMBDA r : Key(r) = keys[i]))]]

\* Line 68.
AvgConsumption(dff) ==
    LET keys == SortConsumers(Unique(dff))
    IN [i \in DOMAIN keys |->
          [Consumer |-> keys[i],
           Consumption |-> Mean(SelectSeq(dff, LAMBDA r : r.Consumer = keys[i]))]]

\* Line 80.
HourlyAvg(dff) ==
    LET Key(r) == <<r.Hour, r.Consumer>>
        keys == GroupKeys(SortInts({dff[i].Hour : i \in DOMAIN dff}),
                          ConsumerIds, {Key(dff[i]) : i \in DOMAIN dff})
    IN [i \in DOMAIN keys |->
          [Hour |-> keys[i][1], Consumer |-> keys[i][2],
           Consumption |-> Mean(SelectSeq(dff, LAMBDA r : Key(r) = keys[i]))]]

\* Lines 93-101: the box plot draws, per consumer, its raw values.
Distribution(dff) ==
    [c \in Unique(dff) |->
        LET rows == SelectSeq(dff, LAMBDA r : r.Consumer = c)
        IN [i \in DOMAIN rows |-> rows[i].Consumption]]

\* Lines 106-107: the group-by sorts its keys, day names lexically.
WeekdayGrouped(dff) ==
    LET Key(r) == <<r.Weekday, r.Consumer>>
        keys == GroupKeys(WeekdayLexical, ConsumerIds, {Key(dff[i]) : i \in DOMAIN dff})
    IN [i \in DOMAIN keys |->
          [Weekday |-> keys[i][1], Consumer |-> keys[i][2],
           Consumption |-> Mean(SelectSeq(dff, LAMBDA r : Key(r) = keys[i]))]]

\* Line 108, reindex(target, level=0): the rows of each target label in
\* turn, in the order they had; rows of other labels are dropped.
Reindex(rows, target) ==
    Flatten([i \in DOMAIN target |->
                SelectSeq(rows, LAMBDA r : r.Weekday = target[i])])

\* The reindex left out.
WeekdayAvgNoReindex(dff) == WeekdayGrouped(dff)

\* Lines 105-110.
WeekdayAvg(dff) == Reindex(WeekdayGrouped(dff), weekday_order)

\* ---------------------------------------------------- the forecast selector
\* The options taken from the consumption table.
ForecastOptionsFromConsumption(df_, forecast_df_) == SortConsumers(Unique(df_))

\* Line 133.
ForecastOptions(df_, forecast_df_) == SortConsumers(Unique(forecast_df_))

\* The rows of every consumer.
ForecastSelectAll(forecast_df_, c) == forecast_df_

\* Line 146.
ForecastSelect(forecast_df_, c) == SelectSeq(forecast_df_, LAMBDA r : r.Consumer = c)

Truthy(c) == c # None /\ c # ""

\* The first row read without a look at .empty.
ForecastTabNoEmptyCheck(forecast_df_, c) ==
    IF Truthy(c)
    THEN LET cfd == ForecastSelect(forecast_df_, c)
         IN [consumer_forecast_df |-> cfd, notices |-> {},
             charts |-> IF cfd = <<>> THEN {} ELSE {"fig_forecast", "forecast_table"},
             exception |-> cfd = <<>>]
    ELSE [consumer_forecast_df |-> <<>>, notices |-> {"forecast_info"},
          charts |-> {}, exception |-> FALSE]

\* Lines 142-202.
ForecastTab(forecast_df_, c) ==
    IF Truthy(c)
    THEN LET cfd == ForecastSelect(forecast_df_, c)
         IN IF cfd = <<>>
            THEN [consumer_forecast_df |-> cfd, notices |-> {"forecast_warning"},
                  charts |-> {}, exception |-> FALSE]
            ELSE [consumer_forecast_df |-> cfd, notices |-> {},
                  charts |-> {"fig_forecast", "forecast_table"}, exception |-> FALSE]
    ELSE [consumer_forecast_df |-> <<>>, notices |-> {"forecast_info"},
          charts |-> {}, exception |-> FALSE]

\* ------------------------------------------------------------- the widgets
\* st.multiselect(options, default): the session's value, else the default.
Multiselect(options, default, widget) ==
    IF widget.set THEN widget.value ELSE default

\* st.selectbox(options): the session's value, else the first option, else
\* None when there is no option.
Selectbox(options, widget) ==
    IF widget.set THEN widget.value
    ELSE IF options = <<>> THEN None ELSE options[1]

\* --------------------------------------------------------------- the state
VARIABLES
    files,                      \* the two CSV files on disk
    cache,                      \* st.cache_data's memo of the two loaders
    session_state,              \* the widgets' values kept between executions
    started,                    \* the script has been executed at least once
    status,                     \* how the latest execution ended
    last_load,                  \* load_data() of the latest execution: hit or miss
    user_chose,                 \* the user has picked a consumer in the selectbox
    df, forecast_df, all_consumers,
    eda_consumers, df_filtered,
    daily, avg_consumption, hourly_avg, distribution, weekday_avg,
    forecast_consumers_list, forecast_consumer, consumer_forecast_df,
    notices,                    \* st.warning / st.info shown by the latest execution
    charts                      \* charts and tables drawn by the latest execution

vars ==
    <<files, cache, session_state, started, status, last_load, user_chose,
      df, forecast_df, all_consumers, eda_consumers, df_filtered,
      daily, avg_consumption, hourly_avg, distribution, weekday_avg,
      forecast_consumers_list, forecast_consumer, consumer_forecast_df,
      notices, charts>>

Unset == [set |-> FALSE, value |-> None]

\* What an execution that raised leaves behind: nothing assigned or drawn
\* from the failing statement on.
Halted(c, df_, hit) ==
    [status |-> "error", cache |-> c, hit |-> hit, df |-> df_, forecast_df |-> <<>>,
     all_consumers |-> <<>>, eda_consumers |-> {}, df_filtered |-> <<>>,
     daily |-> <<>>, avg_consumption |-> <<>>, hourly_avg |-> <<>>,
     distribution |-> <<>>, weekday_avg |-> <<>>,
     forecast_consumers_list |-> <<>>, forecast_consumer |-> None,
     consumer_forecast_df |-> <<>>, notices |-> {}, charts |-> {}]

\* Lines 25-202, one execution of the script from top to bottom.
Script(c, f, eda_widget, forecast_widget) ==
    LET ld == load_data(c, f.consumption)
    IN IF ld.exception THEN Halted(ld.cache, <<>>, ld.hit)
       ELSE
       LET lf == load_forecast_data(ld.cache, f.forecast)
       IN IF lf.exception THEN Halted(lf.cache, ld.value, ld.hit)
          ELSE
          LET all == SortConsumers(Unique(ld.value))
              eda == Multiselect(all, Range(all), eda_widget)
              flt == Filter(ld.value, eda)
              dff == flt.filtered
              opts == ForecastOptions(flt.source, lf.value)
              fc  == Selectbox(opts, forecast_widget)
              tab == ForecastTab(lf.value, fc)
          IN [status |-> IF tab.exception THEN "error" ELSE "ok",
              cache |-> lf.cache, hit |-> ld.hit,
              df |-> flt.source, forecast_df |-> lf.value,
              all_consumers |-> all, eda_consumers |-> eda, df_filtered |-> dff,
              daily |-> Daily(dff), avg_consumption |-> AvgConsumption(dff),
              hourly_avg |-> HourlyAvg(dff), distribution |-> Distribution(dff),
              weekday_avg |-> WeekdayAvg(dff),
              forecast_consumers_list |-> opts, forecast_consumer |-> fc,
              consumer_forecast_df |-> tab.consumer_forecast_df,
              notices |-> (IF flt.warning THEN {"eda_warning"} ELSE {}) \cup tab.notices,
              charts |-> {"fig1", "fig2", "fig3", "fig4", "fig5"} \cup tab.charts]

\* The state an execution with result r leaves.  The widgets an execution
\* reached keep their values in the session.
Execute(r) ==
    /\ started' = TRUE
    /\ status' = r.status
    /\ cache' = r.cache
    /\ last_load' = IF r.hit THEN "hit" ELSE "miss"
    /\ session_state' =
          IF r.status = "error" /\ r.charts = {} THEN session_state
          ELSE [eda_consumers |-> [set |-> TRUE, value |-> r.eda_consumers],
                forecast_consumer |-> [set |-> TRUE, value |-> r.forecast_consumer]]
    /\ df' = r.df
    /\ forecast_df' = r.forecast_df
    /\ all_consumers' = r.all_consumers
    /\ eda_consumers' = r.eda_consumers
    /\ df_filtered' = r.df_filtered
    /\ daily' = r.daily
    /\ avg_consumption' = r.avg_consumption
    /\ hourly_avg' = r.hourly_avg
    /\ distribution' = r.distribution
    /\ weekday_avg' = r.weekday_avg
    /\ forecast_consumers_list' = r.forecast_consumers_list
    /\ forecast_consumer' = r.forecast_consumer
    /\ consumer_forecast_df' = r.consumer_forecast_df
    /\ notices' = r.notices
    /\ charts' = r.charts
    /\ UNCHANGED files

\* ------------------------------------------------------------------- inputs
ConsumptionRows ==
    [Timestamp : Timestamps, Consumer : Range(ConsumerIds), Consumption : Consumptions]

ForecastRows == [ds : ForecastDates, Consumer : Range(ConsumerIds), yhat : Yhats]

SampleConsumption ==
    <<[Timestamp |-> 100, Consumer |-> "B", Consumption |-> 20],
      [Timestamp |-> 13, Consumer |-> "A", Consumption |-> 10]>>

SampleForecast ==
    <<[ds |-> 1, Consumer |-> "A", yhat |-> 7], [ds |-> 2, Consumer |-> "A", yhat |-> 9]>>

Present(rows) == [exists |-> TRUE, rows |-> rows]
Missing == [exists |-> FALSE, rows |-> <<>>]

\* Every consumption file of up to MaxRows rows beside a sample forecast
\* file, every forecast file of up to MaxFRows rows beside a sample
\* consumption file, and either file missing.
InputFiles ==
    {[consumption |-> Present(t), forecast |-> Present(SampleForecast)] :
        t \in SeqsUpTo(ConsumptionRows, MaxRows)}
    \cup
    {[consumption |-> Present(SampleConsumption), forecast |-> Present(t)] :
        t \in SeqsUpTo(ForecastRows, MaxFRows)}
    \cup
    {[consumption |-> Missing, forecast |-> Present(SampleForecast)],
     [consumption |-> Present(SampleConsumption), forecast |-> Missing]}

Init ==
    /\ files \in InputFiles
    /\ cache = [load_data |-> [cached |-> FALSE, value |-> <<>>],
                load_forecast_data |-> [cached |-> FALSE, value |-> <<>>]]
    /\ session_state = [eda_consumers |-> Unset, forecast_consumer |-> Unset]
    /\ started = FALSE
    /\ status = "idle"
    /\ last_load = "none"
    /\ user_chose = FALSE
    /\ df = <<>>
    /\ forecast_df = <<>>
    /\ all_consumers = <<>>
    /\ eda_consumers = {}
    /\ df_filtered = <<>>
    /\ daily = <<>>
    /\ avg_consumption = <<>>
    /\ hourly_avg = <<>>
    /\ distribution = <<>>
    /\ weekday_avg = <<>>
    /\ forecast_consumers_list = <<>>
    /\ forecast_consumer = None
    /\ consumer_forecast_df = <<>>
    /\ notices = {}
    /\ charts = {}

\* ------------------------------------------------------------------ actions
\* The page is opened: the first execution, every widget at its default.
Open ==
    /\ ~started
    /\ \E r \in {Script(cache, files, session_state.eda_consumers,
                      session_state.forecast_consumer)} : Execute(r)
    /\ UNCHANGED user_chose

\* The user re-runs the page without touching a widget.
Rerun ==
    /\ started
    /\ \E r \in {Script(cache, files, session_state.eda_consumers,
                      session_state.forecast_consumer)} : Execute(r)
    /\ UNCHANGED user_chose

\* The user changes the multiselect to S, a subset of its options.
SelectEda ==
    /\ started /\ status = "ok"
    /\ \E S \in SUBSET Range(all_consumers) :
          /\ S # eda_consumers
          /\ \E r \in {Script(cache, files, [set |-> TRUE, value |-> S],
                            session_state.forecast_consumer)} : Execute(r)
    /\ UNCHANGED user_chose

\* The user picks another option of the selectbox.
SelectForecast ==
    /\ started /\ status = "ok"
    /\ \E c \in Range(forecast_consumers_list) :
          /\ c # forecast_consumer
          /\ \E r \in {Script(cache, files, session_state.eda_consumers,
                            [set |-> TRUE, value |-> c])} : Execute(r)
    /\ user_chose' = TRUE

Next == Open \/ Rerun \/ SelectEda \/ SelectForecast

Spec == Init /\ [][Next]_vars

\* The forecast selector exercised on its whole domain: any consumer
\* identifier, listed in the selectbox or not.
ApplySelector ==
    /\ started /\ status = "ok"
    /\ \E c \in Range(ConsumerIds) :
          /\ c # forecast_consumer
          /\ \E r \in {Script(cache, files, session_state.eda_consumers,
                            [set |-> TRUE, value |-> c])} : Execute(r)
    /\ user_chose' = TRUE

NextSelector == Open \/ Rerun \/ SelectEda \/ ApplySelector

SpecSelector == Init /\ [][NextSelector]_vars

\* ------------------------------------------------------------------- claims
CalendarRank(w) == CHOOSE i \in DOMAIN weekday_order : weekday_order[i] = w

RECURSIVE SumAt(_, _)
SumAt(t, I) ==
    IF I = {} THEN 0
    ELSE LET i == CHOOSE x \in I : TRUE IN t[i].Consumption + SumAt(t, I \ {i})

\* C1: with a non-empty selection S, the consumers of the per-consumer mean
\* aggregate are exactly S: none outside S, none of S missing.
C1_FilterThenAggregate ==
    (status = "ok" /\ eda_consumers # {}) =>
        {avg_consumption[i].Consumer : i \in DOMAIN avg_consumption} = eda_consumers

\* A proper non-empty subset of the consumers is selected and aggregated.
C1_Witness ==
    /\ status = "ok"
    /\ eda_consumers # {}
    /\ eda_consumers # Range(all_consumers)
    /\ avg_consumption # <<>>

\* C2: the warning is shown exactly when the selection is empty, and with
\* the empty selection the filtered table and the five aggregates are those
\* the selection of every consumer produces.
C2_EmptySelectionShowsAll ==
    status = "ok" =>
        /\ ("eda_warning" \in notices) <=> (eda_consumers = {})
        /\ eda_consumers = {} =>
              LET every == Filter(df, Range(all_consumers))
              IN /\ ~every.warning \/ all_consumers = <<>>
                 /\ df_filtered = every.filtered
                 /\ daily = Daily(every.filtered)
                 /\ avg_consumption = AvgConsumption(every.filtered)
                 /\ hourly_avg = HourlyAvg(every.filtered)
                 /\ distribution = Distribution(every.filtered)
                 /\ weekday_avg = WeekdayAvg(every.filtered)

\* The selection was emptied over a table that has rows.
C2_Witness ==
    /\ status = "ok"
    /\ eda_consumers = {}
    /\ all_consumers # <<>>
    /\ "eda_warning" \in notices
    /\ daily # <<>>

\* C3: the rows of the weekday-mean aggregate are in the order Monday ...
\* Sunday, whatever the order of the input rows and whatever the selection.
C3_WeekdayOrder ==
    status = "ok" =>
        \A i, j \in DOMAIN weekday_avg :
            i < j => CalendarRank(weekday_avg[i].Weekday)
                        <= CalendarRank(weekday_avg[j].Weekday)

\* The file holds a Friday row before a Monday row and both days are
\* aggregated.
C3_Witness ==
    /\ status = "ok"
    /\ \E i, j \in DOMAIN df_filtered :
          i < j /\ df_filtered[i].Weekday = "Friday" /\ df_filtered[j].Weekday = "Monday"
    /\ \E i, j \in DOMAIN weekday_avg :
          weekday_avg[i].Weekday = "Monday" /\ weekday_avg[j].Weekday = "Friday"

\* C4: the daily-total aggregate has exactly one row for every (Date,
\* Consumer) pair of the filtered table, its value the sum of the
\* Consumption of the filtered rows of that pair, and no row for any other
\* pair.
C4_DailyTotal ==
    status = "ok" =>
        LET pairs == {<<df_filtered[i].Date, df_filtered[i].Consumer>> :
                          i \in DOMAIN df_filtered}
        IN /\ \A p \in pairs :
                LET I == {i \in DOMAIN df_filtered :
                            <<df_filtered[i].Date, df_filtered[i].Consumer>> = p}
                    J == {j \in DOMAIN daily : <<daily[j].Date, daily[j].Consumer>> = p}
                IN /\ Cardinality(J) = 1
                   /\ \A j \in J : daily[j].Consumption = SumAt(df_filtered, I)
           /\ \A j \in DOMAIN daily : <<daily[j].Date, daily[j].Consumer>> \in pairs

\* Three records of one consumer on one day, 10, 20 and 10, total 40,
\* beside nothing else.
C4_Witness ==
    /\ status = "ok"
    /\ Len(df_filtered) = 3
    /\ Len(daily) = 1
    /\ daily[1].Consumption = 40

\* C5 as claimed: the selector returns exactly the rows of the chosen
\* consumer, ordered by ds ascending, whatever the order of the file.
C5_SortedByDate ==
    (status = "ok" /\ forecast_consumer # None) =>
        /\ \A i \in DOMAIN consumer_forecast_df :
              consumer_forecast_df[i].Consumer = forecast_consumer
        /\ Len(consumer_forecast_df) =
              Cardinality({i \in DOMAIN forecast_df :
                              forecast_df[i].Consumer = forecast_consumer})
        /\ \A i, j \in DOMAIN consumer_forecast_df :
              i < j => consumer_forecast_df[i].ds <= consumer_forecast_df[j].ds

\* C5 amended: the selector returns exactly the rows of the chosen consumer
\* in the order they have in the forecast table, so ascending by ds when
\* the table's rows of that consumer are.
C5_FileOrder ==
    (status = "ok" /\ forecast_consumer # None) =>
        LET idx == SortInts({i \in DOMAIN forecast_df :
                                forecast_df[i].Consumer = forecast_consumer})
        IN /\ Len(consumer_forecast_df) = Len(idx)
           /\ \A k \in DOMAIN idx : consumer_forecast_df[k] = forecast_df[idx[k]]

\* A consumer is selected whose rows are kept while another consumer's row
\* is left out.
C5_Witness ==
    /\ status = "ok"
    /\ forecast_consumer # None
    /\ consumer_forecast_df # <<>>
    /\ Len(consumer_forecast_df) < Len(forecast_df)

\* C6: a selected consumer without any forecast row gives an empty result
\* and the warning, no chart, no table, and no error.
C6_NoForecastRows ==
    (started /\ Truthy(forecast_consumer)
        /\ forecast_consumer \notin Unique(forecast_df)) =>
        /\ status = "ok"
        /\ consumer_forecast_df = <<>>
        /\ "forecast_warning" \in notices
        /\ "fig_forecast" \notin charts
        /\ "forecast_table" \notin charts

\* The selector was applied to a consumer the forecast table has no row of.
C6_Witness ==
    /\ started
    /\ Truthy(forecast_consumer)
    /\ forecast_df # <<>>
    /\ forecast_consumer \notin Unique(forecast_df)
    /\ "forecast_warning" \in notices

\* C7 as claimed: until the user has chosen a consumer none is selected,
\* the informational notice is shown and no forecast chart is drawn.
C7_InitialNoSelection ==
    (status = "ok" /\ ~user_chose) =>
        /\ forecast_consumer = None
        /\ "forecast_info" \in notices
        /\ "fig_forecast" \notin charts

\* C8: once loaded, no execution changes the consumption table, the
\* forecast table or their memoized copies.
C8_SourceTablesUnchanged ==
    [][started => (df' = df /\ forecast_df' = forecast_df /\ cache' = cache)]_vars

\* An execution served from the memo narrowed the table and picked one
\* consumer's forecast rows.
C8_Witness ==
    /\ status = "ok"
    /\ last_load = "hit"
    /\ df_filtered # df
    /\ consumer_forecast_df # <<>>

\* C9: every load, first or repeated, returns the file's rows with Date,
\* Hour (0-23) and Weekday derived from each row's Timestamp alone.
C9_LoadDeterministic ==
    (started /\ files.consumption.exists) =>
        LET rows == files.consumption.rows
        IN /\ Len(df) = Len(rows)
           /\ cache.load_data.cached /\ cache.load_data.value = df
           /\ \A i \in DOMAIN df :
                /\ df[i].Timestamp = rows[i].Timestamp
                /\ df[i].Consumer = rows[i].Consumer
                /\ df[i].Consumption = rows[i].Consumption
                /\ df[i].Hour \in 0..23
                /\ df[i].Hour = rows[i].Timestamp % 24
                /\ df[i].Date = rows[i].Timestamp \div 24
                /\ df[i].Weekday = weekday_order[((rows[i].Timestamp \div 24) % 7) + 1]

\* A repeated load of a file with an afternoon row and a Friday row.
C9_Witness ==
    /\ last_load = "hit"
    /\ \E i, j \in DOMAIN df :
          df[i].Hour = 13 /\ df[j].Weekday = "Friday" /\ df[j].Date = 4

====
